---- MODULE Spec2Model ----
(***************************************************************************)
(* A model of the build bridge of                                          *)
(* vendor/github.com/moby/buildkit/solver/llbsolver/bridge.go:             *)
(*   - resultProxy (Result / Release / loadResult / wrapError),            *)
(*   - llbBridge.loadResult with the cache-manager registry b.cms and the  *)
(*     lazyCacheManager handles it creates,                                *)
(*   - llbBridge.Run / Exec with validateEntitlements and loadExecutor.    *)
(* Three specifications share the module: SpecProxy, SpecBridge, SpecExec. *)
(***************************************************************************)
EXTENDS Integers, Sequences, FiniteSets, TLC

(***************************************************************************)
(* Bounds of the model.                                                    *)
(***************************************************************************)
\* goroutines that call Result / Release on the one proxy
NumCallers == 2
\* Result calls made in total
MaxCalls == 3
\* Release calls made in total
MaxReleases == 2
\* partial results an ExecError exposes at most
MaxPartial == 2

Callers == 1..NumCallers

(***************************************************************************)
(* Values.  A solver.Result / solver.CachedResult is an object identity    *)
(* (1, 2, ...); Nil is the nil interface.  An error is a record; NoErr is  *)
(* the nil error.                                                          *)
(***************************************************************************)
Nil == 0

RECURSIVE SeqToSet(_)
SeqToSet(s) == IF s = << >> THEN {} ELSE {Head(s)} \cup SeqToSet(Tail(s))

MkErr(msg, canceled, digest, refs) ==
  [msg |-> msg, canceled |-> canceled, digest |-> digest, refs |-> refs,
   ownerBorrowed |-> FALSE, sources |-> << >>]

NoErr == MkErr("", FALSE, "", << >>)

\* errors.Errorf("accessing released result"), bridge.go:304
ErrAccessingReleased == MkErr("accessing released result", FALSE, "", << >>)
\* errors.Errorf("evaluating released result"), bridge.go:327
ErrEvaluatingReleased == MkErr("evaluating released result", FALSE, "", << >>)
\* errors.Errorf("failed to capture provenance: %v", err), bridge.go:333
ErrProvenance == MkErr("failed to capture provenance", FALSE, "", << >>)
\* the error a result object's Release returns when it fails
ErrRelease(r) == MkErr("release failed", FALSE, "", <<r>>)

IsReleasedStateErr(e) == e \in {ErrAccessingReleased, ErrEvaluatingReleased}

\* errors.As(err, &ee) with ee *llberrdefs.ExecError, bridge.go:284-285
IsExecError(e) == e.refs # << >> /\ e.msg = "exec"

\* errdefs.IsCanceled(ctx, err), bridge.go:315: a property of the error chain
IsCanceled(e) == e.canceled

(***************************************************************************)
(* The request of the proxy: rp.req.Definition.Source maps the digest of a *)
(* vertex to the locations recorded for it (bridge.go:267-276).            *)
(***************************************************************************)
ReqSource ==
  [present |-> TRUE,
   Locations |-> [d \in {"d1"} |-> << [SourceIndex |-> 1, Ranges |-> "r1"],
                                       [SourceIndex |-> 1, Ranges |-> "r2"] >>],
   Infos |-> << "Dockerfile" >>]

\* a definition without source metadata: rp.req.Definition.Source == nil
NoSource == [present |-> FALSE, Locations |-> << >>, Infos |-> << >>]

\* a definition whose source map records locations in two files for d1
\* and one location for d2
TwoFiles ==
  [present |-> TRUE,
   Locations |-> [d \in {"d1", "d2"} |->
                    IF d = "d1"
                    THEN << [SourceIndex |-> 2, Ranges |-> "r1"],
                            [SourceIndex |-> 1, Ranges |-> "r2"] >>
                    ELSE << [SourceIndex |-> 1, Ranges |-> "r3"] >>],
   Infos |-> << "Dockerfile", "common.inc" >>]

Sources == {NoSource, ReqSource, TwoFiles}

\* errdefs.WithSource(err, src): one more source annotation around err
WithSource(e, src) == [e EXCEPT !.sources = Append(@, src)]

\* variant of WrapLocs: only the first location is attached
WrapLocsFirstOnly(src, e, locs) ==
  IF locs = << >> THEN e
  ELSE WithSource(e, [Info |-> src.Infos[Head(locs).SourceIndex],
                      Ranges |-> Head(locs).Ranges])

\* the loop over locs.Locations, bridge.go:270-275
RECURSIVE WrapLocs(_, _, _)
WrapLocs(src, e, locs) ==
  IF locs = << >> THEN e
  ELSE WrapLocs(src,
                WithSource(e, [Info |-> src.Infos[Head(locs).SourceIndex],
                               Ranges |-> Head(locs).Ranges]),
                Tail(locs))

\* resultProxy.wrapError on a request whose definition has the source map
\* src; an error with a digest is a VertexError (errors.As, bridge.go:266)
wrapError(src, e) ==
  IF e = NoErr THEN NoErr
  ELSE IF e.digest # "" /\ src.present /\ e.digest \in DOMAIN src.Locations
       THEN WrapLocs(src, e, src.Locations[e.digest])
       ELSE e

(***************************************************************************)
(* State.                                                                  *)
(***************************************************************************)
VARIABLES
  \* resultProxy fields
  released, v, err, errResults, provenance,
  \* rp.g, the flightcontrol group: key -> call in flight
  g,
  \* the goroutines calling Result / Release
  callers,
  \* what the last Result call to return returned
  lastRet,
  \* per result object, how many times its Release was invoked
  relCount,
  \* bookkeeping of the run: calls made, evaluations, the last Release
  hist

proxyVars == <<released, v, err, errResults, provenance, g, callers, lastRet, relCount, hist>>

VARIABLES
  \* b.cms: cache-source key -> lazy cache manager (a position in lcms)
  cms,
  \* b.cmsMu: 0 when free, else the request holding it
  cmsMu,
  \* the lazyCacheManager objects created so far
  lcms,
  \* the loadResult calls
  reqs

bridgeVars == <<cms, cmsMu, lcms, reqs>>

VARIABLES
  \* the entitlements the build grants (what loadEntitlements loads)
  granted,
  \* b.executorOnce: "new", "running" or "done"
  executorOnce,
  \* b.executorErr and b.executor
  executorErr, executor,
  \* the Run / Exec calls
  xcalls,
  \* how many times resolveWorker was called for the executor
  resolves

execVars == <<granted, executorOnce, executorErr, executor, xcalls, resolves>>

VARIABLES
  \* the ResolveSourceMetadata calls
  metas,
  \* an error, the source map of a definition, and wrapError applied to it
  wrapped

metaVars == <<metas>>

wrapVars == <<wrapped>>

VARIABLES
  \* two cache-source references and the keys cmKey gave them
  keyed

keyVars == <<keyed>>

\* state of the functions that are checked on their own
pureVars == <<wrapVars, keyVars>>

VARIABLES
  \* the container: HostConfig, RemovalInProgress, Dead
  ctr,
  \* the container's lock: 0 when free, else the update call holding it
  ctrMu,
  \* the HostConfig last checkpointed to daemon.containersReplica
  replica,
  \* the restart policy the container's monitor was last given
  monitor,
  \* the update calls whose update event was logged
  events,
  \* the Daemon.update calls
  upd

daemonVars == <<ctr, ctrMu, replica, monitor, events, upd>>

vars == <<proxyVars, bridgeVars, execVars, metaVars, pureVars, daemonVars>>

\* what the actions of one part of the bridge leave alone
offProxy == <<bridgeVars, execVars, metaVars, pureVars, daemonVars>>

offBridge == <<proxyVars, execVars, metaVars, pureVars, daemonVars>>

offExec == <<proxyVars, bridgeVars, metaVars, pureVars, daemonVars>>

offMeta == <<proxyVars, execVars, pureVars, daemonVars>>

offWrap == <<proxyVars, bridgeVars, execVars, metaVars, keyVars, daemonVars>>

offKey == <<proxyVars, bridgeVars, execVars, metaVars, wrapVars, daemonVars>>

offDaemon == <<proxyVars, bridgeVars, execVars, metaVars, pureVars>>

NoRet == [set |-> FALSE, v |-> Nil, err |-> NoErr]

\* a goroutine outside Result
Idle == [pc |-> "idle", ctxDone |-> FALSE, afterRel |-> FALSE, afterSucc |-> FALSE]

NoRel == [objs |-> {}, err |-> NoErr, lastFail |-> NoErr]

InitProxy ==
  /\ released = FALSE
  /\ v = Nil
  /\ err = NoErr
  /\ errResults = << >>
  /\ provenance = Nil
  /\ g = << >>
  /\ callers = [p \in Callers |-> Idle]
  /\ lastRet = NoRet
  /\ relCount = << >>
  /\ hist = [calls |-> 0, evals |-> 0,
             relCalls |-> 0, lastRel |-> NoRel,
             firstSucc |-> Nil, evalsAtSucc |-> 0, canceled |-> FALSE,
             discarded |-> Nil, storedDone |-> FALSE]

(***************************************************************************)
(* llbBridge.loadResult as the proxy sees it: rp.req names no cache        *)
(* imports, so the call changes no bridge state and is one of its possible *)
(* returns.  next is the identity the next result object gets.             *)
(***************************************************************************)
\* the errors loadResult returns (bridge.go:75-157): a plain error of any
\* of its steps, a VertexError naming a digest, an ExecError of the build
\* exposing partial results; each is or is not a cancellation
LoadResultErrors(next) ==
  { MkErr("load", c, "", << >>) : c \in BOOLEAN }
  \cup { MkErr("vertex", FALSE, "d1", << >>) }
  \cup { MkErr("exec", c, "", [i \in 1..MaxPartial |-> next + i - 1]) : c \in BOOLEAN }

(***************************************************************************)
(* flightcontrol.Group.Do: callers of one key share one call of fn.  The   *)
(* context handed to fn is done once the context of every caller waiting   *)
(* on the call is done.                                                    *)
(***************************************************************************)
CtxDone(k) == \A p \in g[k].waiters : callers[p].ctxDone

\* variant of ResultKey: a key that differs from caller to caller
ResultKeyPerCaller(p) == ToString(p)

\* the key Result passes to rp.g.Do (bridge.go:300)
ResultKey(p) == "result"

NewCall(p) ==
  [pc |-> "check", waiters |-> {p}, lv |-> Nil, lerr |-> NoErr, todo |-> << >>,
   out |-> [v |-> Nil, err |-> NoErr], evals |-> 0, doneAtStore |-> FALSE,
   afterRel |-> hist.relCalls > 0]

\* Result: enter rp.g.Do; join the call in flight for the key or start one.
\* The goroutines are interchangeable: the lowest idle one makes the call.
ResultCall(p) ==
  /\ callers[p].pc = "idle"
  /\ \A q \in Callers : q < p => callers[q].pc # "idle"
  /\ hist.calls < MaxCalls
  /\ LET k == ResultKey(p) IN
     \* a call whose fn has returned takes no more callers
     /\ k \in DOMAIN g => g[k].pc # "ready"
     /\ callers' = [callers EXCEPT ![p] =
                       [pc |-> "wait", ctxDone |-> FALSE,
                        afterRel |-> hist.relCalls > 0,
                        afterSucc |-> hist.firstSucc # Nil]]
     /\ g' = IF k \in DOMAIN g
             THEN [g EXCEPT ![k].waiters = @ \cup {p}]
             ELSE g @@ (k :> NewCall(p))
     /\ hist' = [hist EXCEPT !.calls = @ + 1]
  /\ UNCHANGED <<offProxy, released, v, err, errResults, provenance, lastRet, relCount>>

\* the context of a caller waiting in Result is canceled
CancelCtx(p) ==
  /\ callers[p].pc = "wait"
  /\ ~callers[p].ctxDone
  /\ callers' = [callers EXCEPT ![p].ctxDone = TRUE]
  /\ UNCHANGED <<offProxy, released, v, err, errResults, provenance, g, lastRet, relCount, hist>>

\* variant of HasOutcome: only a stored error counts as an outcome
HasOutcomeErrOnly == err # NoErr

\* whether the stored outcome is returned without evaluating (bridge.go:306)
HasOutcome == v # Nil \/ err # NoErr

\* fn, bridge.go:301-310: the released check and the memoized outcome
FnCheck(k) ==
  /\ k \in DOMAIN g
  /\ g[k].pc = "check"
  /\ IF released
     THEN g' = [g EXCEPT ![k].pc = "ready",
                         ![k].out = [v |-> Nil, err |-> ErrAccessingReleased]]
     ELSE IF HasOutcome
     THEN g' = [g EXCEPT ![k].pc = "ready", ![k].out = [v |-> v, err |-> err]]
     ELSE g' = [g EXCEPT ![k].pc = "eval"]
  /\ UNCHANGED <<offProxy, released, v, err, errResults, provenance, callers, lastRet, relCount, hist>>

\* fn, bridge.go:311 with rp.loadResult bridge.go:283: rp.b.loadResult returns
FnEval(k) ==
  /\ k \in DOMAIN g
  /\ g[k].pc = "eval"
  /\ LET next == Len(relCount) + 1 IN
     \/ \* builder.Build succeeded: a fresh result object
        /\ g' = [g EXCEPT ![k].pc = "store", ![k].lv = next, ![k].evals = @ + 1]
        /\ relCount' = Append(relCount, 0)
        /\ hist' = [hist EXCEPT !.evals = @ + 1]
     \/ \* loadResult failed
        \E e \in LoadResultErrors(next) :
          /\ g' = [g EXCEPT ![k].pc = IF IsExecError(e) THEN "append" ELSE "store",
                            ![k].lerr = e, ![k].evals = @ + 1,
                            ![k].todo = IF IsExecError(e) THEN e.refs ELSE << >>]
          /\ relCount' = relCount \o [i \in 1..Len(e.refs) |-> 0]
          /\ hist' = [hist EXCEPT !.evals = @ + 1]
  /\ UNCHANGED <<offProxy, released, v, err, errResults, provenance, callers, lastRet>>

\* variant of MarkBorrowed: the flag is left unset
MarkBorrowedForgotten(e) == e

\* ee.OwnerBorrowed = true, bridge.go:291
MarkBorrowed(e) == [e EXCEPT !.ownerBorrowed = TRUE]

\* rp.loadResult, bridge.go:286-291: EachRef appends one exposed result to
\* rp.errResults (the proxy mutex is not held); after the last one the
\* error is marked owner-borrowed
FnAppend(k) ==
  /\ k \in DOMAIN g
  /\ g[k].pc = "append"
  /\ errResults' = Append(errResults, Head(g[k].todo))
  /\ IF Tail(g[k].todo) = << >>
     THEN g' = [g EXCEPT ![k].todo = << >>, ![k].pc = "store",
                         ![k].lerr = MarkBorrowed(@)]
     ELSE g' = [g EXCEPT ![k].todo = Tail(@)]
  /\ UNCHANGED <<offProxy, released, v, err, provenance, callers, lastRet, relCount, hist>>

\* Release(ctx) is invoked on each result object of the sequence rs
Occurrences(rs, r) == Cardinality({i \in 1..Len(rs) : rs[i] = r})

Bump(rc, rs) == [i \in 1..Len(rc) |-> rc[i] + Occurrences(rs, i)]

\* variant of CanceledReturn: a done context alone makes the return canceled
CanceledReturnCtxOnly(k) == g[k].lerr # NoErr /\ CtxDone(k)

\* variant of CanceledReturn: cancellation is not told apart from failure
CanceledReturnNever(k) == FALSE

\* fn, bridge.go:312-320: a canceled evaluation is returned without storing
CanceledReturn(k) ==
  g[k].lerr # NoErr /\ CtxDone(k) /\ IsCanceled(g[k].lerr)

\* variant of AfterCaptureFailed: the released result stays the one to store
AfterCaptureFailedKept(lv) == lv

\* v = nil, bridge.go:335: what is left to store once the capture of the
\* provenance of lv has failed
AfterCaptureFailed(lv) == Nil

\* fn, bridge.go:312-342
FnStore(k) ==
  /\ k \in DOMAIN g
  /\ g[k].pc = "store"
  /\ LET c == g[k] IN
     IF CanceledReturn(k)
     THEN /\ g' = [g EXCEPT ![k].pc = "ready", ![k].doneAtStore = CtxDone(k),
                            ![k].out = [v |-> c.lv, err |-> c.lerr]]
          /\ UNCHANGED <<v, err, provenance, relCount, hist>>
     ELSE IF released
     THEN \* bridge.go:322-328
          /\ g' = [g EXCEPT ![k].pc = "ready", ![k].doneAtStore = CtxDone(k),
                            ![k].out = [v |-> Nil, err |-> ErrEvaluatingReleased]]
          /\ relCount' = IF c.lv # Nil THEN Bump(relCount, <<c.lv>>) ELSE relCount
          /\ UNCHANGED <<v, err, provenance, hist>>
     ELSE IF c.lerr = NoErr
     THEN \* bridge.go:329-342, captureProvenance succeeds or fails
          \/ /\ provenance' = c.lv
             /\ v' = c.lv
             /\ err' = NoErr
             /\ relCount' = relCount
             /\ hist' = hist
             /\ g' = [g EXCEPT ![k].pc = "ready", ![k].doneAtStore = CtxDone(k),
                               ![k].out = [v |-> c.lv, err |-> NoErr]]
          \/ /\ provenance' = Nil
             /\ v' = AfterCaptureFailed(c.lv)
             /\ err' = ErrProvenance
             /\ relCount' = Bump(relCount, <<c.lv>>)
             /\ g' = [g EXCEPT ![k].pc = "ready", ![k].lv = Nil,
                               ![k].doneAtStore = CtxDone(k),
                               ![k].out = [v |-> Nil, err |-> ErrProvenance]]
             /\ hist' = [hist EXCEPT !.discarded = c.lv]
     ELSE \* bridge.go:339-342
          /\ v' = c.lv
          /\ err' = c.lerr
          /\ g' = [g EXCEPT ![k].pc = "ready", ![k].doneAtStore = CtxDone(k),
                            ![k].out = [v |-> c.lv, err |-> c.lerr]]
          /\ hist' = [hist EXCEPT !.storedDone = CtxDone(k)]
          /\ UNCHANGED <<provenance, relCount>>
  /\ UNCHANGED <<offProxy, released, errResults, callers, lastRet>>

\* rp.g.Do returns: every caller waiting on the call gets fn's return, and
\* Result's deferred wrapError is applied (bridge.go:297-299)
Deliver(k) ==
  /\ k \in DOMAIN g
  /\ g[k].pc = "ready"
  /\ LET c == g[k] IN
     /\ callers' = [p \in Callers |-> IF p \in c.waiters THEN Idle ELSE callers[p]]
     /\ lastRet' = [set |-> TRUE, v |-> c.out.v, err |-> wrapError(ReqSource, c.out.err)]
     /\ hist' = IF c.out.v # Nil /\ c.out.err = NoErr /\ hist.firstSucc = Nil
                THEN [hist EXCEPT !.firstSucc = c.out.v, !.evalsAtSucc = hist.evals]
                ELSE IF c.out.err # NoErr /\ c.out.err = c.lerr /\ ~HasOutcome
                THEN [hist EXCEPT !.canceled = TRUE]
                ELSE hist
  /\ g' = [x \in DOMAIN g \ {k} |-> g[x]]
  /\ UNCHANGED <<offProxy, released, v, err, errResults, provenance, relCount>>

\* the error left by the loop over rp.errResults (bridge.go:242-247) when
\* the last Release in it to fail is that of rs[last] (none if last = 0)
LastErr(rs, last) == IF last = 0 THEN NoErr ELSE ErrRelease(rs[last])

\* variant of ReleaseMarks: Release leaves rp.released alone
ReleaseMarksNever(loopErr) == FALSE

\* whether Release sets rp.released (bridge.go:248-258)
ReleaseMarks(loopErr) == ~(v # Nil /\ loopErr # NoErr)

\* what Release returns (bridge.go:252-258)
ReleaseReturn(loopErr, rerr) ==
  IF v # Nil /\ loopErr # NoErr THEN rerr ELSE loopErr

\* the result objects Release invokes Release on (bridge.go:242-252)
ReleaseTargets == errResults \o (IF v # Nil THEN <<v>> ELSE << >>)

\* resultProxy.Release, called by any goroutine.  Each underlying Release
\* may fail: last is the position in rp.errResults of the last one that
\* does, vfails whether that of rp.v does.
Release ==
  /\ hist.relCalls < MaxReleases
  /\ \E last \in 0..Len(errResults), vfails \in BOOLEAN :
       LET loopErr == LastErr(errResults, last)
           rerr == IF v # Nil /\ vfails THEN ErrRelease(v) ELSE NoErr
       IN /\ relCount' = Bump(relCount, ReleaseTargets)
          /\ released' = IF ReleaseMarks(loopErr) THEN TRUE ELSE released
          /\ hist' = [hist EXCEPT !.relCalls = @ + 1,
                                  !.lastRel = [objs |-> SeqToSet(ReleaseTargets),
                                               err |-> ReleaseReturn(loopErr, rerr),
                                               lastFail |-> IF rerr # NoErr THEN rerr
                                                            ELSE loopErr]]
  /\ UNCHANGED <<offProxy, v, err, errResults, provenance, g, callers, lastRet>>

\* resultProxy.Provenance, bridge.go:232-237
Provenance == IF provenance = Nil THEN Nil ELSE provenance

\* ExecError.Release, run when the caller drops the error Result returned:
\* it releases the exposed results unless the error is owner-borrowed
DropError ==
  /\ lastRet.set
  /\ IsExecError(lastRet.err)
  /\ relCount' = IF lastRet.err.ownerBorrowed THEN relCount
                 ELSE Bump(relCount, lastRet.err.refs)
  /\ lastRet' = NoRet
  /\ UNCHANGED <<offProxy, released, v, err, errResults, provenance, g, callers, hist>>

Keys == {ResultKey(p) : p \in Callers}

NextProxy ==
  \/ \E p \in Callers : ResultCall(p)
  \/ \E p \in Callers : CancelCtx(p)
  \/ \E k \in Keys : FnCheck(k)
  \/ \E k \in Keys : FnEval(k)
  \/ \E k \in Keys : FnAppend(k)
  \/ \E k \in Keys : FnStore(k)
  \/ \E k \in Keys : Deliver(k)
  \/ Release
  \/ DropError

(***************************************************************************)
(* llbBridge.loadResult, the registry b.cms and the lazy cache managers.   *)
(***************************************************************************)
\* goroutines calling llbBridge.loadResult, one call each
NumReqs == 2
\* cache imports a request names at most
MaxImports == 2

Reqs == 1..NumReqs

\* gw.CacheOptionsEntry values the requests draw their cacheImports from
CacheRefs ==
  << [Type |-> "registry", Attrs |-> [ref |-> "a"]],
     [Type |-> "registry", Attrs |-> [ref |-> "a", mode |-> "max"]],
     [Type |-> "local", Attrs |-> [src |-> "x"]] >>

\* the references cmKey is looked at on: those of CacheRefs, then registry
\* references with an empty or a missing ref, and other types with and
\* without a ref
KeyRefs ==
  CacheRefs \o
  << [Type |-> "registry", Attrs |-> [ref |-> ""]],
     [Type |-> "registry", Attrs |-> [mode |-> "max"]],
     [Type |-> "registry", Attrs |-> [ref |-> "b"]],
     [Type |-> "local", Attrs |-> [ref |-> "a"]],
     [Type |-> "local", Attrs |-> [ref |-> "a", mode |-> "max"]],
     [Type |-> "gha", Attrs |-> [ref |-> ""]],
     [Type |-> "gha", Attrs |-> [src |-> "x"]] >>

\* the types b.resolveCacheImporterFuncs has a resolver for
Importers == {"registry"}

\* im.Attrs[k]: the zero value for a missing key
AttrGet(attrs, k) == IF k \in DOMAIN attrs THEN attrs[k] ELSE ""

\* hashstructure.Hash(im, hashstructure.FormatV2, nil): a number that
\* depends on the type and the attributes only; distinct values of
\* CacheRefs are taken to hash apart
HashStructure(im) == CHOOSE i \in 1..Len(KeyRefs) : KeyRefs[i] = im

\* variant of cmKey: a non-empty ref is the key whatever the type
cmKeyAnyType(im) ==
  IF AttrGet(im.Attrs, "ref") # ""
  THEN AttrGet(im.Attrs, "ref")
  ELSE im.Type \o ":" \o ToString(HashStructure(im))

\* cmKey
cmKey(im) ==
  IF im.Type = "registry" /\ AttrGet(im.Attrs, "ref") # ""
  THEN AttrGet(im.Attrs, "ref")
  ELSE im.Type \o ":" \o ToString(HashStructure(im))

\* the source policies a request submits: p1, p2 are valid, "nil" is a nil
\* entry, "bad" fails validateSourcePolicy
PolLists == { << >>, <<"p1", "p2">>, <<"p1", "nil">>, <<"bad", "p1">> }

NoEngine == << "none" >>

\* variant of FirstInvalid: only the first submitted policy is looked at
FirstInvalidHeadOnly(pol) ==
  IF pol = << >> THEN NoErr
  ELSE IF Head(pol) = "nil" THEN MkErr("invalid nil policy", FALSE, "", << >>)
  ELSE IF Head(pol) = "bad" THEN MkErr("invalid source policy", FALSE, "", << >>)
  ELSE NoErr

\* the loop over pol, bridge.go:89-96: the error of the first entry that is
\* nil or fails validateSourcePolicy
RECURSIVE FirstInvalid(_)
FirstInvalid(pol) ==
  IF pol = << >> THEN NoErr
  ELSE IF Head(pol) = "nil" THEN MkErr("invalid nil policy", FALSE, "", << >>)
  ELSE IF Head(pol) = "bad" THEN MkErr("invalid source policy", FALSE, "", << >>)
  ELSE FirstInvalid(Tail(pol))

\* variant of Prologue: an engine is made for submitted policies only
PrologueSubmittedOnly(workerOK, entOK, amb, pol) ==
  IF ~workerOK THEN [err |-> MkErr("resolve worker", FALSE, "", << >>), engine |-> NoEngine]
  ELSE IF ~entOK THEN [err |-> MkErr("load entitlements", FALSE, "", << >>), engine |-> NoEngine]
  ELSE IF amb = "err" THEN [err |-> MkErr("load source policy", FALSE, "", << >>), engine |-> NoEngine]
  ELSE IF Len(pol) > 0
  THEN IF FirstInvalid(pol) # NoErr
       THEN [err |-> FirstInvalid(pol), engine |-> NoEngine]
       ELSE [err |-> NoErr,
             engine |-> IF amb # "none" THEN <<amb>> \o pol ELSE pol]
  ELSE [err |-> NoErr, engine |-> NoEngine]

\* loadResult, bridge.go:75-101: the worker, the entitlements and the
\* ambient source policy are loaded, the submitted policies validated and
\* the policy engine composed.  amb is what loadSourcePolicy returns.
Prologue(workerOK, entOK, amb, pol) ==
  IF ~workerOK THEN [err |-> MkErr("resolve worker", FALSE, "", << >>), engine |-> NoEngine]
  ELSE IF ~entOK THEN [err |-> MkErr("load entitlements", FALSE, "", << >>), engine |-> NoEngine]
  ELSE IF amb = "err" THEN [err |-> MkErr("load source policy", FALSE, "", << >>), engine |-> NoEngine]
  ELSE IF amb # "none" \/ Len(pol) > 0
  THEN IF FirstInvalid(pol) # NoErr
       THEN [err |-> FirstInvalid(pol), engine |-> NoEngine]
       ELSE [err |-> NoErr,
             engine |-> IF amb # "none" THEN <<amb>> \o pol ELSE pol]
  ELSE [err |-> NoErr, engine |-> NoEngine]

IdleReq ==
  [pc |-> "idle", amb |-> "none", pol |-> << >>, engine |-> NoEngine, n |-> 0, im |-> 0, cmID |-> "",
   cm |-> Nil, cms |-> << >>, ids |-> FALSE, res |-> Nil, err |-> NoErr]

InitBridge ==
  /\ cms = << >>
  /\ cmsMu = 0
  /\ lcms = << >>
  /\ reqs = [r \in Reqs |-> IdleReq]

\* loadResult is called: bridge.go:75-101.  The goroutines are
\* interchangeable: the lowest idle one makes the call.
LRStart(r) ==
  /\ reqs[r].pc = "idle"
  /\ \A q \in Reqs : q < r => reqs[q].pc # "idle"
  /\ \E workerOK \in BOOLEAN, entOK \in BOOLEAN,
        amb \in {"err", "none", "ambient"}, pol \in PolLists :
       LET o == Prologue(workerOK, entOK, amb, pol) IN
       reqs' = [reqs EXCEPT ![r] =
                  IF o.err # NoErr
                  THEN [IdleReq EXCEPT !.pc = "done", !.pol = pol, !.err = o.err]
                  ELSE [IdleReq EXCEPT !.pc = "cms", !.amb = amb, !.pol = pol,
                                       !.engine = o.engine]]
  /\ UNCHANGED <<cms, cmsMu, lcms, offBridge>>

\* variant of CmsMuFree: the lock excludes nobody
CmsMuNoExclusion == TRUE

\* b.cmsMu can be taken
CmsMuFree == cmsMu = 0

\* bridge.go:103-108: the next cache import im of the request, its key,
\* and b.cmsMu.Lock()
LRLock(r) ==
  /\ reqs[r].pc = "cms"
  /\ reqs[r].n < MaxImports
  /\ CmsMuFree
  /\ cmsMu' = r
  /\ \E i \in 1..Len(CacheRefs) :
       reqs' = [reqs EXCEPT ![r].pc = "locked", ![r].n = @ + 1, ![r].im = i,
                            ![r].cmID = cmKey(CacheRefs[i])]
  /\ UNCHANGED <<cms, lcms, offBridge>>

\* newLazyCacheManager, bridge.go:441: the object, its resolution pending
NewLazy(id, im) ==
  [id |-> id, im |-> im, closed |-> FALSE, main |-> Nil, err |-> NoErr, runs |-> 0,
   seen |-> {}]

\* bridge.go:109-135: look the key up in b.cms; create a lazy cache manager
\* when it is absent
LRLookup(r) ==
  /\ reqs[r].pc = "locked"
  /\ IF reqs[r].cmID \in DOMAIN cms
     THEN /\ reqs' = [reqs EXCEPT ![r].pc = "found", ![r].cm = cms[reqs[r].cmID]]
          /\ lcms' = lcms
     ELSE /\ reqs' = [reqs EXCEPT ![r].pc = "created", ![r].cm = Len(lcms) + 1]
          /\ lcms' = Append(lcms, NewLazy(reqs[r].cmID, reqs[r].im))
  /\ UNCHANGED <<cms, cmsMu, offBridge>>

\* variant of Registered: the new handle is the only entry left in b.cms
RegisteredAlone(m, id, cm) == [k \in {id} |-> cm]

\* variant of Registered: the new handle is not put in b.cms
RegisteredNowhere(m, id, cm) == m

\* b.cms[cmID] = cm, bridge.go:132
Registered(m, id, cm) == [k \in DOMAIN m \cup {id} |-> IF k = id THEN cm ELSE m[k]]

\* bridge.go:132-137: insert a created handle, append the handle to the
\* request's cms, b.cmsMu.Unlock()
LRInsert(r) ==
  /\ reqs[r].pc \in {"found", "created"}
  /\ cms' = IF reqs[r].pc = "created"
            THEN Registered(cms, reqs[r].cmID, reqs[r].cm) ELSE cms
  /\ cmsMu' = 0
  /\ reqs' = [reqs EXCEPT ![r].pc = "cms", ![r].cm = Nil, ![r].cmID = "", ![r].im = 0,
                          ![r].cms = Append(@, reqs[r].cm)]
  /\ UNCHANGED <<lcms, offBridge>>

\* variant of NeedsPrune: the workers are asked to prune after every load
NeedsPruneAlways(ids) == TRUE

\* len(dpc.ids) > 0, bridge.go:146
NeedsPrune(ids) == ids

\* bridge.go:139-144: after the last import, Load takes the policy engine
\* and the cache managers and builds the edge or fails; ids tells whether
\* it recorded cache-mount ids (dpc.ids)
LRLoad(r) ==
  /\ reqs[r].pc = "cms"
  /\ \/ reqs' = [reqs EXCEPT ![r] =
                    [IdleReq EXCEPT !.pc = "done",
                                    !.err = MkErr("failed to load LLB", FALSE, "", << >>)]]
     \/ \E ids \in BOOLEAN :
          reqs' = [reqs EXCEPT ![r] =
                     [IdleReq EXCEPT !.pc = IF NeedsPrune(ids) THEN "prune" ELSE "build",
                                     !.ids = ids]]
  /\ UNCHANGED <<cms, cmsMu, lcms, offBridge>>

\* bridge.go:146-152: b.eachWorker(PruneCacheMounts)
LRPrune(r) ==
  /\ reqs[r].pc = "prune"
  /\ \/ reqs' = [reqs EXCEPT ![r].pc = "build"]
     \/ reqs' = [reqs EXCEPT ![r].pc = "done",
                             ![r].err = MkErr("prune cache mounts", FALSE, "", << >>)]
  /\ UNCHANGED <<cms, cmsMu, lcms, offBridge>>

\* bridge.go:154-158: b.builder.Build(ctx, edge)
LRBuild(r) ==
  /\ reqs[r].pc = "build"
  /\ \/ reqs' = [reqs EXCEPT ![r].pc = "done", ![r].res = r]
     \/ reqs' = [reqs EXCEPT ![r].pc = "done",
                             ![r].err = MkErr("build", FALSE, "", << >>)]
  /\ UNCHANGED <<cms, cmsMu, lcms, offBridge>>

Handles == 1..Len(lcms)

\* variant of WaitChClosed: the channel is closed only when fn succeeded
WaitChClosedOnSuccess(e) == e = NoErr

\* defer close(lcm.waitCh), bridge.go:443: whether the channel is closed
\* when the goroutine ends with fn's error e
WaitChClosed(e) == TRUE

\* the goroutine of newLazyCacheManager, bridge.go:442-450, running fn of
\* bridge.go:112-130: the importer of the type is looked up, configured and
\* asked to resolve; waitCh is closed whatever the outcome
LcmResolve(h) ==
  /\ h \in Handles
  /\ ~lcms[h].closed
  /\ lcms[h].runs = 0
  /\ \E e \in IF CacheRefs[lcms[h].im].Type \notin Importers
              THEN {MkErr("unknown cache importer", FALSE, "", << >>)}
              ELSE {MkErr("failed to configure cache importer", FALSE, "", << >>),
                    MkErr("resolve", FALSE, "", << >>), NoErr} :
       \E m \in IF e = NoErr THEN {Nil, h} ELSE {Nil} :
         lcms' = [lcms EXCEPT ![h].closed = WaitChClosed(e), ![h].runs = @ + 1,
                              ![h].err = e, ![h].main = m]
  /\ UNCHANGED <<cms, cmsMu, reqs, offBridge>>

\* variant of LcmWait: the operation does not wait for the resolution
LcmWaitSkipped(h) == TRUE

\* lazyCacheManager.wait, bridge.go:435-438: <-lcm.waitCh
LcmWait(h) == lcms[h].closed

\* what an operation reads of the handle once wait has returned:
\* lcm.main and lcm.err
Read(h) == [main |-> lcms[h].main, err |-> lcms[h].err]

\* lazyCacheManager.Query and Records, bridge.go:398-412: what they return
\* on the reads s
QueryReturn(s) ==
  IF s.main = Nil THEN [panic |-> FALSE, to |-> Nil, err |-> NoErr]
  ELSE [panic |-> FALSE, to |-> s.main, err |-> NoErr]

\* lazyCacheManager.Load, Save and ReleaseUnreferenced, bridge.go:414-433:
\* what they return on the reads s; a call on a nil lcm.main panics
LoadReturn(s) ==
  IF s.err # NoErr THEN [panic |-> FALSE, to |-> Nil, err |-> s.err]
  ELSE IF s.main = Nil THEN [panic |-> TRUE, to |-> Nil, err |-> NoErr]
  ELSE [panic |-> FALSE, to |-> s.main, err |-> NoErr]

\* an operation on the handle (Query, Records, Load, Save or
\* ReleaseUnreferenced): it waits, then reads lcm.main and lcm.err
LcmOp(h) ==
  /\ h \in Handles
  /\ LcmWait(h)
  /\ lcms' = [lcms EXCEPT ![h].seen = @ \cup {Read(h)}]
  /\ UNCHANGED <<cms, cmsMu, reqs, offBridge>>

NextBridge ==
  \/ \E r \in Reqs : LRStart(r)
  \/ \E r \in Reqs : LRLock(r)
  \/ \E r \in Reqs : LRLookup(r)
  \/ \E r \in Reqs : LRInsert(r)
  \/ \E r \in Reqs : LRLoad(r)
  \/ \E r \in Reqs : LRPrune(r)
  \/ \E r \in Reqs : LRBuild(r)
  \/ \E h \in 1..(NumReqs * MaxImports) : LcmResolve(h)
  \/ \E h \in 1..(NumReqs * MaxImports) : LcmOp(h)

(***************************************************************************)
(* llbBridge.Run / Exec: validateEntitlements, loadExecutor, the forward.  *)
(***************************************************************************)
\* goroutines calling Run or Exec, one call each
NumExec == 2

ExecCallers == 1..NumExec

\* process.Meta.NetMode and process.Meta.SecurityMode
ProcInfos == [NetMode : {"UNSET", "HOST"}, SecurityMode : {"SANDBOX", "INSECURE"}]

EntNetworkHost == "network.host"
EntSecurityInsecure == "security.insecure"
AllEntitlements == {EntNetworkHost, EntSecurityInsecure}

\* variant of EntValues: the security mode is not looked at
EntValuesNetworkOnly(p) ==
  [NetworkHost |-> p.NetMode = "HOST", SecurityInsecure |-> FALSE]

\* entitlements.Values of validateEntitlements, bridge.go:166-169
EntValues(p) ==
  [NetworkHost |-> p.NetMode = "HOST",
   SecurityInsecure |-> p.SecurityMode = "INSECURE"]

ErrNotAllowed(e) == MkErr(e \o " is not allowed", FALSE, "", << >>)

IsEntitlementErr(e) == e \in {ErrNotAllowed(x) : x \in AllEntitlements}

\* ent.Check(v): each requested capability against its grant
EntCheck(ent, vals) ==
  IF vals.NetworkHost /\ EntNetworkHost \notin ent THEN ErrNotAllowed(EntNetworkHost)
  ELSE IF vals.SecurityInsecure /\ EntSecurityInsecure \notin ent
  THEN ErrNotAllowed(EntSecurityInsecure)
  ELSE NoErr

\* llbBridge.validateEntitlements, bridge.go:161-171; entOK tells whether
\* loadEntitlements succeeded
validateEntitlements(entOK, p) ==
  IF ~entOK THEN MkErr("load entitlements", FALSE, "", << >>)
  ELSE EntCheck(granted, EntValues(p))

IdleX ==
  [pc |-> "idle", op |-> "", proc |-> [NetMode |-> "UNSET", SecurityMode |-> "SANDBOX"],
   entOK |-> FALSE, err |-> NoErr, acquired |-> FALSE, forwarded |-> FALSE,
   to |-> Nil]

InitExec(G) ==
  /\ granted \in G
  /\ executorOnce = "new"
  /\ executorErr = NoErr
  /\ executor = Nil
  /\ xcalls = [c \in ExecCallers |-> IdleX]
  /\ resolves = 0

\* Run / Exec are called, bridge.go:173-176 and 184-187: the entitlements
\* are validated first.  The goroutines are interchangeable: the lowest
\* idle one makes the call.
XStart(c) ==
  /\ xcalls[c].pc = "idle"
  /\ \A q \in ExecCallers : q < c => xcalls[q].pc # "idle"
  /\ \E op \in {"Run", "Exec"}, p \in ProcInfos, entOK \in BOOLEAN :
       LET e == validateEntitlements(entOK, p) IN
       xcalls' = [xcalls EXCEPT ![c] =
                    [IdleX EXCEPT !.op = op, !.proc = p, !.entOK = entOK, !.err = e,
                                  !.pc = IF e # NoErr THEN "done" ELSE "load"]]
  /\ UNCHANGED <<granted, executorOnce, executorErr, executor, resolves,
                 offExec>>

\* variant of OnceFresh: a caller is let in whenever nobody is inside
OnceFreshAgain == executorOnce # "running"

\* b.executorOnce.Do, bridge.go:196: the function has not been run yet
OnceFresh == executorOnce = "new"

\* b.loadExecutor, bridge.go:196 and 204: executorOnce.Do takes the first
\* caller in, keeps the others out until it is done, and is a no-op after
XLoad(c) ==
  /\ xcalls[c].pc = "load"
  /\ \/ /\ OnceFresh
        /\ executorOnce' = "running"
        /\ xcalls' = [xcalls EXCEPT ![c].pc = "init", ![c].acquired = TRUE]
     \/ /\ executorOnce = "done"
        /\ executorOnce' = executorOnce
        /\ xcalls' = [xcalls EXCEPT ![c].acquired = TRUE, ![c].err = executorErr,
                        ![c].pc = IF executorErr # NoErr THEN "done" ELSE "forward"]
  /\ UNCHANGED <<granted, executorErr, executor, resolves, offExec>>

\* the function of executorOnce.Do, bridge.go:197-204: the worker is
\* resolved; its executor or the error is kept
XInit(c) ==
  /\ xcalls[c].pc = "init"
  /\ resolves' = resolves + 1
  /\ executorOnce' = "done"
  /\ \/ /\ executorErr' = MkErr("resolve worker", FALSE, "", << >>)
        /\ executor' = executor
        /\ xcalls' = [xcalls EXCEPT ![c].pc = "done",
                                    ![c].err = MkErr("resolve worker", FALSE, "", << >>)]
     \/ /\ executorErr' = executorErr
        /\ executor' = 1
        /\ xcalls' = [xcalls EXCEPT ![c].pc = "forward"]
  /\ UNCHANGED <<granted, offExec>>

\* b.executor.Run / b.executor.Exec, bridge.go:181 and 192
XForward(c) ==
  /\ xcalls[c].pc = "forward"
  /\ \E e \in {NoErr, MkErr("executor", FALSE, "", << >>)} :
       xcalls' = [xcalls EXCEPT ![c].pc = "done", ![c].forwarded = TRUE, ![c].err = e,
                                ![c].to = executor]
  /\ UNCHANGED <<granted, executorOnce, executorErr, executor, resolves,
                 offExec>>

NextExec ==
  \/ \E c \in ExecCallers : XStart(c)
  \/ \E c \in ExecCallers : XLoad(c)
  \/ \E c \in ExecCallers : XInit(c)
  \/ \E c \in ExecCallers : XForward(c)

(***************************************************************************)
(* llbBridge.ResolveSourceMetadata.                                        *)
(***************************************************************************)
\* goroutines calling ResolveSourceMetadata, one call each
NumMeta == 1

MetaCallers == 1..NumMeta

\* opt.SourcePolicies as the caller passes it
MetaPolLists == { << >>, <<"p1">>, <<"p1", "p2">> }

\* bridge.go:365-367: the policies handed to sourcepolicy.NewEngine; amb is
\* what loadSourcePolicy returned
MetaPolicies(amb, pols) == IF amb # "none" THEN Append(pols, amb) ELSE pols

IdleMeta ==
  [pc |-> "idle", amb |-> "none", pols |-> << >>, engine |-> << >>, logName |-> "",
   asked |-> FALSE, optPols |-> << >>, resp |-> Nil, err |-> NoErr]

InitMeta == metas = [m \in MetaCallers |-> IdleMeta]

\* bridge.go:347-367: the worker is resolved, the log name defaulted, the
\* ambient policy loaded and added to opt.SourcePolicies
RSMStart(m) ==
  /\ metas[m].pc = "idle"
  /\ \E workerOK \in BOOLEAN, amb \in {"err", "none", "ambient"},
        pols \in MetaPolLists, logName \in {"", "name"} :
       metas' = [metas EXCEPT ![m] =
                   IF ~workerOK
                   THEN [IdleMeta EXCEPT !.pc = "done", !.pols = pols,
                                         !.err = MkErr("resolve worker", FALSE, "", << >>)]
                   ELSE IF amb = "err"
                   THEN [IdleMeta EXCEPT !.pc = "done", !.pols = pols,
                                         !.err = MkErr("load source policy", FALSE, "", << >>)]
                   ELSE [IdleMeta EXCEPT !.pc = "evaluate", !.amb = amb, !.pols = pols,
                           !.logName = IF logName = "" THEN "resolve image config for op"
                                       ELSE logName,
                           !.optPols = MetaPolicies(amb, pols)]]
  /\ UNCHANGED <<bridgeVars, offMeta>>

\* variant of EvaluatedPolicies: the evaluated list stays in the options
EvaluatedPoliciesKept(ps) == ps

\* opt.SourcePolicies = nil, bridge.go:374
EvaluatedPolicies(ps) == << >>

\* bridge.go:369-374: the engine of opt.SourcePolicies evaluates the op;
\* when it accepts, opt.SourcePolicies is cleared
RSMEvaluate(m) ==
  /\ metas[m].pc = "evaluate"
  /\ \/ metas' = [metas EXCEPT ![m].pc = "done", ![m].engine = metas[m].optPols,
                    ![m].err = MkErr("could not resolve image due to policy", FALSE, "", << >>)]
     \/ metas' = [metas EXCEPT ![m].pc = "resolve", ![m].engine = metas[m].optPols,
                              ![m].optPols = EvaluatedPolicies(@)]
  /\ UNCHANGED <<bridgeVars, offMeta>>

\* bridge.go:376-383: w.ResolveSourceMetadata(ctx, op, opt, b.sm, g)
RSMResolve(m) ==
  /\ metas[m].pc = "resolve"
  /\ \/ metas' = [metas EXCEPT ![m].pc = "done", ![m].asked = TRUE, ![m].resp = m]
     \/ metas' = [metas EXCEPT ![m].pc = "done", ![m].asked = TRUE,
                              ![m].err = MkErr("resolve source metadata", FALSE, "", << >>)]
  /\ UNCHANGED <<bridgeVars, offMeta>>

\* the policy composition of loadResult and of ResolveSourceMetadata
NextMeta ==
  \/ \E r \in Reqs : LRStart(r)
  \/ \E m \in MetaCallers : RSMStart(m)
  \/ \E m \in MetaCallers : RSMEvaluate(m)
  \/ \E m \in MetaCallers : RSMResolve(m)

(***************************************************************************)
(* resultProxy.wrapError as a function: applied, and applied again, to an  *)
(* error under a source map.                                               *)
(***************************************************************************)
\* applications of wrapError to one error
MaxWraps == 2

\* the errors wrapError is given: nil, errors without a vertex, and
\* VertexErrors of digests d1, d2, d3
WrapErrors ==
  {NoErr} \cup {MkErr(m, c, d, << >>) :
                  m \in {"load", "build"}, c \in BOOLEAN, d \in {"", "d1", "d2", "d3"}}

InitWrap(S, E) ==
  wrapped \in {[src |-> s, e0 |-> e, e |-> e, n |-> 0] : s \in S, e \in E}

\* err = rp.wrapError(err)
WrapStep ==
  /\ wrapped.n < MaxWraps
  /\ wrapped' = [wrapped EXCEPT !.e = wrapError(wrapped.src, wrapped.e), !.n = @ + 1]
  /\ UNCHANGED offWrap

NextWrap == WrapStep

(***************************************************************************)
(* cmKey as a function: the keys of two references, taken one after the    *)
(* other.                                                                  *)
(***************************************************************************)
\* references whose key is computed
MaxKeyed == 2

InitKey(S) ==
  keyed \in {[ims |-> <<a, b>>, keys |-> << >>] : a \in S, b \in S}

\* cmID, err := cmKey(im), bridge.go:104
KeyStep ==
  /\ Len(keyed.keys) < MaxKeyed
  /\ Len(keyed.keys) < Len(keyed.ims)
  /\ keyed' = [keyed EXCEPT !.keys = Append(@, cmKey(keyed.ims[Len(keyed.keys) + 1]))]
  /\ UNCHANGED offKey

NextKey == KeyStep

(***************************************************************************)
(* The specifications.                                                     *)
(***************************************************************************)
\* the functions checked on their own, not applied
(***************************************************************************)
(* Daemon.update, daemon/update.go:30-103, on one container.               *)
(***************************************************************************)
\* goroutines calling Daemon.update for the container, one call each
NumUpd == 2

Updaters == 1..NumUpd

\* a HostConfig is told by the update calls whose settings it carries;
\* the container starts with none applied
NoUpdates == {}

\* ctr.UpdateContainer(hostConfig) applied for call u to the HostConfig hc
Applied(hc, u) == hc \cup {u}

\* a call outside update, none returned yet
IdleUpd ==
  [pc |-> "idle", isNil |-> FALSE, policy |-> FALSE, looked |-> FALSE,
   backupHostConfig |-> NoUpdates, atCopy |-> NoUpdates, restoreConfig |-> FALSE,
   logging |-> FALSE, restored |-> FALSE, ret |-> "none"]

InitDaemon ==
  /\ ctr = [HostConfig |-> NoUpdates, RemovalInProgress |-> FALSE, Dead |-> FALSE]
  /\ ctrMu = 0
  /\ replica = NoUpdates
  /\ monitor = 0
  /\ events = {}
  /\ upd = [u \in Updaters |-> IdleUpd]

\* update.go:31-38: a nil hostConfig returns nil at once; otherwise the
\* container is looked up.  policy tells whether hostConfig names a
\* restart policy.  The goroutines are interchangeable: the lowest idle
\* one makes the call.
UpdStart(u) ==
  /\ upd[u].pc = "idle"
  /\ \A q \in Updaters : q < u => upd[q].pc # "idle"
  /\ \/ upd' = [upd EXCEPT ![u] = [IdleUpd EXCEPT !.pc = "done", !.isNil = TRUE,
                                                   !.ret = "ok"]]
     \/ \E policy \in BOOLEAN, found \in BOOLEAN :
          upd' = [upd EXCEPT ![u] =
                    IF found
                    THEN [IdleUpd EXCEPT !.pc = "backup", !.policy = policy,
                                         !.looked = TRUE]
                    ELSE [IdleUpd EXCEPT !.pc = "done", !.policy = policy,
                                         !.looked = TRUE, !.ret = "no such container"]]
  /\ UNCHANGED <<ctr, ctrMu, replica, monitor, events, offDaemon>>

\* update.go:40-41: backupHostConfig := *ctr.HostConfig, read with the
\* container's lock not held
UpdBackup(u) ==
  /\ upd[u].pc = "backup"
  /\ upd' = [upd EXCEPT ![u].pc = "lock", ![u].backupHostConfig = ctr.HostConfig,
                        ![u].atCopy = ctr.HostConfig]
  /\ UNCHANGED <<ctr, ctrMu, replica, monitor, events, offDaemon>>

\* update.go:54: ctr.Lock()
UpdLock(u) ==
  /\ upd[u].pc = "lock"
  /\ ctrMu = 0
  /\ ctrMu' = u
  /\ upd' = [upd EXCEPT ![u].pc = "locked"]
  /\ UNCHANGED <<ctr, replica, monitor, events, offDaemon>>

\* variant of CannotUpdate: only a dead container is refused
CannotUpdateDeadOnly(c) == c.Dead

\* update.go:56: ctr.RemovalInProgress || ctr.Dead
CannotUpdate(c) == c.RemovalInProgress \/ c.Dead

\* update.go:56-72, under the lock: the refusal of a container that is dead
\* or marked for removal; UpdateContainer, which may fail with the
\* HostConfig changed or not; CheckpointTo, which may fail; ctr.Unlock() on
\* every path
UpdApply(u) ==
  /\ upd[u].pc = "locked"
  /\ ctrMu' = 0
  /\ IF CannotUpdate(ctr)
     THEN /\ upd' = [upd EXCEPT ![u].pc = "defer", ![u].ret = "marked for removal"]
          /\ UNCHANGED <<ctr, replica>>
     ELSE \/ \E hc \in {ctr.HostConfig, Applied(ctr.HostConfig, u)} :
               /\ ctr' = [ctr EXCEPT !.HostConfig = hc]
               /\ upd' = [upd EXCEPT ![u].pc = "defer", ![u].restoreConfig = TRUE,
                                     ![u].ret = "UpdateContainer"]
               /\ UNCHANGED replica
          \/ /\ ctr' = [ctr EXCEPT !.HostConfig = Applied(@, u)]
             /\ upd' = [upd EXCEPT ![u].pc = "defer", ![u].restoreConfig = TRUE,
                                   ![u].ret = "CheckpointTo"]
             /\ UNCHANGED replica
          \/ /\ ctr' = [ctr EXCEPT !.HostConfig = Applied(@, u)]
             /\ replica' = Applied(ctr.HostConfig, u)
             /\ upd' = [upd EXCEPT ![u].pc = "monitor"]
  /\ UNCHANGED <<monitor, events, offDaemon>>

\* update.go:75-79: the restart monitor is given the new policy when one is
\* named; the update event is deferred
UpdMonitor(u) ==
  /\ upd[u].pc = "monitor"
  /\ monitor' = IF upd[u].policy THEN u ELSE monitor
  /\ upd' = [upd EXCEPT ![u].pc = "task", ![u].logging = TRUE]
  /\ UNCHANGED <<ctr, ctrMu, replica, events, offDaemon>>

\* update.go:85-94: under the lock, ctr.Restarting and ctr.GetRunningTask();
\* no running task or restarting returns nil, another error is returned
UpdTask(u) ==
  /\ upd[u].pc = "task"
  /\ ctrMu = 0
  /\ \/ upd' = [upd EXCEPT ![u].pc = "defer", ![u].ret = "ok"]
     \/ upd' = [upd EXCEPT ![u].pc = "defer", ![u].ret = "GetRunningTask"]
     \/ upd' = [upd EXCEPT ![u].pc = "resources"]
  /\ UNCHANGED <<ctr, ctrMu, replica, monitor, events, offDaemon>>

\* update.go:96-102: tsk.UpdateResources
UpdResources(u) ==
  /\ upd[u].pc = "resources"
  /\ \/ upd' = [upd EXCEPT ![u].pc = "defer", ![u].ret = "ok"]
     \/ upd' = [upd EXCEPT ![u].pc = "defer", ![u].restoreConfig = TRUE,
                           ![u].ret = "UpdateResources"]
  /\ UNCHANGED <<ctr, ctrMu, replica, monitor, events, offDaemon>>

\* variant of RestoreAllowed: the backup is put back whatever the container
RestoreAlways(c) == TRUE

\* update.go:46: !ctr.RemovalInProgress && !ctr.Dead
RestoreAllowed(c) == ~c.RemovalInProgress /\ ~c.Dead

\* the return of update: the deferred LogContainerEvent (update.go:79),
\* then the deferred restore (update.go:43-52), which takes the lock, puts
\* backupHostConfig back and checkpoints it
UpdReturn(u) ==
  /\ upd[u].pc = "defer"
  /\ upd[u].restoreConfig => ctrMu = 0
  /\ events' = IF upd[u].logging THEN events \cup {u} ELSE events
  /\ IF upd[u].restoreConfig /\ RestoreAllowed(ctr)
     THEN /\ ctr' = [ctr EXCEPT !.HostConfig = upd[u].backupHostConfig]
          /\ replica' = upd[u].backupHostConfig
          /\ upd' = [upd EXCEPT ![u].pc = "done", ![u].restored = TRUE]
     ELSE /\ UNCHANGED <<ctr, replica>>
          /\ upd' = [upd EXCEPT ![u].pc = "done"]
  /\ UNCHANGED <<ctrMu, monitor, offDaemon>>

\* elsewhere in the daemon the container dies or is marked for removal,
\* under its lock
CtrGone ==
  /\ ctrMu = 0
  /\ ~ctr.RemovalInProgress /\ ~ctr.Dead
  /\ \/ ctr' = [ctr EXCEPT !.RemovalInProgress = TRUE]
     \/ ctr' = [ctr EXCEPT !.Dead = TRUE]
  /\ UNCHANGED <<ctrMu, replica, monitor, events, upd, offDaemon>>

NextDaemon ==
  \/ \E u \in Updaters : UpdStart(u)
  \/ \E u \in Updaters : UpdBackup(u)
  \/ \E u \in Updaters : UpdLock(u)
  \/ \E u \in Updaters : UpdApply(u)
  \/ \E u \in Updaters : UpdMonitor(u)
  \/ \E u \in Updaters : UpdTask(u)
  \/ \E u \in Updaters : UpdResources(u)
  \/ \E u \in Updaters : UpdReturn(u)
  \/ CtrGone

InitPure == InitWrap({ReqSource}, {NoErr}) /\ InitKey({CacheRefs[1]}) /\ InitDaemon

Init == InitProxy /\ InitBridge /\ InitExec({{}}) /\ InitMeta /\ InitPure

SpecDaemon == Init /\ [][NextDaemon]_vars

SpecProxy == Init /\ [][NextProxy]_vars

SpecBridge == Init /\ [][NextBridge]_vars

\* the goroutine newLazyCacheManager starts for a handle is scheduled and
\* its resolver returns
SpecBridgeLive ==
  SpecBridge /\ \A h \in 1..(NumReqs * MaxImports) : WF_vars(LcmResolve(h))

InitX ==
  /\ InitProxy /\ InitBridge /\ InitExec(SUBSET AllEntitlements)
  /\ InitMeta /\ InitPure

SpecExec == InitX /\ [][NextExec]_vars

SpecMeta == Init /\ [][NextMeta]_vars

InitW ==
  /\ InitProxy /\ InitBridge /\ InitExec({{}}) /\ InitMeta
  /\ InitWrap(Sources, WrapErrors) /\ InitKey({CacheRefs[1]}) /\ InitDaemon

SpecWrap == InitW /\ [][NextWrap]_vars

InitK ==
  /\ InitProxy /\ InitBridge /\ InitExec({{}}) /\ InitMeta
  /\ InitWrap({ReqSource}, {NoErr}) /\ InitKey(SeqToSet(KeyRefs)) /\ InitDaemon

SpecKey == InitK /\ [][NextKey]_vars

(***************************************************************************)
(* Properties of the result proxy, checked under SpecProxy.                *)
(***************************************************************************)
Evaluating(k) == g[k].pc \in {"append", "store"}

\* C1: callers that are inside Result at the same time all wait on one call
\* of the work function, at most one evaluation is in progress, and a call
\* that found no stored outcome invokes the evaluation exactly once; its
\* return is what every caller waiting on it is handed.
C1_SingleEvaluation ==
  /\ Cardinality(DOMAIN g) <= 1
  /\ \A p \in Callers :
       callers[p].pc = "wait" <=> \E k \in DOMAIN g : p \in g[k].waiters
  /\ \A k \in DOMAIN g :
       /\ Evaluating(k) => g[k].evals = 1
       /\ g[k].pc \in {"check", "eval"} => g[k].evals = 0
       /\ g[k].pc = "ready" => g[k].evals <= 1

\* C1 witness: two callers wait on one call whose single evaluation is done
C1_Witness ==
  \E k \in DOMAIN g :
    /\ Cardinality(g[k].waiters) >= 2
    /\ g[k].pc = "ready"
    /\ g[k].evals = 1
    /\ g[k].out.v # Nil

\* C2: a Result call made after a Release call has returned is handed a
\* released-state error, and a call of the work function started after a
\* Release has returned never invokes the evaluation.  (A caller whose own
\* context was canceled is left out: it may be handed the cancellation.)
C2_ReleasedIsFinal ==
  \A k \in DOMAIN g :
    /\ g[k].afterRel => g[k].evals = 0
    /\ g[k].pc = "ready" =>
         \A p \in g[k].waiters :
           callers[p].afterRel /\ ~callers[p].ctxDone =>
             IsReleasedStateErr(g[k].out.err) /\ g[k].out.v = Nil

\* C3: no result object has its Release invoked more than once.
C3_ReleasedAtMostOnce ==
  \A r \in 1..Len(relCount) : relCount[r] <= 1

\* C4: once an evaluation has failed with an ExecError, every result the
\* error exposes is in rp.errResults and the error is owner-borrowed, so
\* that no retained result is released before Release is called; the first
\* Release call releases every result retained at that time exactly once.
C4_PartialResultsReleasedOnce ==
  /\ \A k \in DOMAIN g :
       g[k].pc \in {"store", "ready"} /\ IsExecError(g[k].lerr) =>
         /\ SeqToSet(g[k].lerr.refs) \subseteq SeqToSet(errResults)
         /\ g[k].lerr.ownerBorrowed
  /\ IsExecError(err) => err.ownerBorrowed
  /\ hist.relCalls = 0 =>
       \A i \in 1..Len(errResults) : relCount[errResults[i]] = 0
  /\ hist.relCalls = 1 =>
       \A i \in 1..Len(errResults) :
         errResults[i] \in hist.lastRel.objs => relCount[errResults[i]] = 1

\* C4 witness: an ExecError exposed two partial results, the error was
\* dropped by its caller, and one Release released both once each
C4_Witness ==
  /\ hist.relCalls = 1
  /\ IsExecError(err)
  /\ Len(err.refs) = 2
  /\ lastRet = NoRet
  /\ \A i \in 1..2 : err.refs[i] \in hist.lastRel.objs /\ relCount[err.refs[i]] = 1

\* C5: when the evaluation returns an error that is a cancellation while
\* the context of the call is done, the call returns that error and the
\* proxy stores neither a result nor an error.
C5_CanceledNotStored ==
  \A k \in DOMAIN g :
    g[k].pc = "ready" /\ g[k].doneAtStore /\ g[k].lerr # NoErr /\ IsCanceled(g[k].lerr) =>
      /\ v = Nil
      /\ err = NoErr
      /\ g[k].out = [v |-> Nil, err |-> g[k].lerr]

\* C5 witness: after a canceled attempt a later call, whose context is not
\* canceled, has evaluated again and stored a successful result
C5_Witness ==
  /\ hist.canceled
  /\ hist.evals >= 2
  /\ \E k \in DOMAIN g :
       /\ g[k].pc = "ready"
       /\ ~g[k].doneAtStore
       /\ g[k].out.v # Nil
       /\ g[k].out.err = NoErr
       /\ v = g[k].out.v

\* C6: once a Result call has returned a successful result, the evaluation
\* is never invoked again, and a Result call made later that returns while
\* no Release has been called returns that same result object.
C6_Memoized ==
  /\ hist.firstSucc # Nil => hist.evals = hist.evalsAtSucc
  /\ \A k \in DOMAIN g :
       g[k].pc = "ready" /\ hist.relCalls = 0
         /\ (\E p \in g[k].waiters : callers[p].afterSucc) =>
           g[k].out = [v |-> hist.firstSucc, err |-> NoErr]

\* C6 witness: a call made after the first success returns the stored result
C6_Witness ==
  \E k \in DOMAIN g :
    /\ g[k].pc = "ready"
    /\ hist.relCalls = 0
    /\ \E p \in g[k].waiters : callers[p].afterSucc
    /\ g[k].evals = 0
    /\ g[k].out.v = hist.firstSucc

\* C7: a second (or later) Release call invokes Release on no result
\* object and returns no error.
C7_SecondReleaseDoesNothing ==
  hist.relCalls >= 2 => hist.lastRel.objs = {} /\ hist.lastRel.err = NoErr

\* C8: two cache-source references with the same type and attributes, in
\* the same or in different loadResult calls and under any interleaving,
\* are given the same handle: no two handles carry the same key, the handle
\* a request is given carries the key of its reference, and every handle a
\* request holds is the one b.cms has under that key.
C8_OneHandlePerKey ==
  /\ \A h1 \in Handles : \A h2 \in Handles : lcms[h1].id = lcms[h2].id => h1 = h2
  /\ \A r \in Reqs :
       /\ reqs[r].pc \in {"found", "created"} =>
            /\ reqs[r].cm \in Handles
            /\ lcms[reqs[r].cm].id = cmKey(CacheRefs[reqs[r].im])
       /\ \A j \in 1..Len(reqs[r].cms) :
            /\ lcms[reqs[r].cms[j]].id \in DOMAIN cms
            /\ cms[lcms[reqs[r].cms[j]].id] = reqs[r].cms[j]

\* C8 happens: a request finds, for its reference, the handle that was
\* created for the very same reference and that another request holds
C8_Witness ==
  \E r1 \in Reqs : \E r2 \in Reqs \ {r1} :
    /\ reqs[r1].pc = "found"
    /\ lcms[reqs[r1].cm].im = reqs[r1].im
    /\ \E j \in 1..Len(reqs[r2].cms) : reqs[r2].cms[j] = reqs[r1].cm

\* C9: the resolution of a handle runs at most once and has run exactly
\* once when the wait channel is closed; an operation on the handle (Query,
\* Records, Load, Save, ReleaseUnreferenced) reads lcm.main and lcm.err only
\* after that, and all operations read the same manager or the same absence.
C9_ResolvedOnceThenObserved ==
  \A h \in Handles :
    /\ lcms[h].runs <= 1
    /\ lcms[h].closed <=> lcms[h].runs = 1
    /\ lcms[h].seen # {} => lcms[h].closed /\ lcms[h].seen = {Read(h)}
    /\ \A h2 \in Handles : lcms[h2].id = lcms[h].id /\ h2 # h => lcms[h2].runs + lcms[h].runs <= 1

\* C9 happens: one request named the same key twice, the one handle was
\* resolved to a manager and an operation has observed it
C9_Witness ==
  \E r \in Reqs : \E h \in Handles :
    /\ reqs[r].cms = <<h, h>>
    /\ lcms[h].runs = 1
    /\ lcms[h].main # Nil
    /\ lcms[h].seen = {[main |-> h, err |-> NoErr]}

\* the process asks for host networking or the insecure security mode and
\* the build's entitlements do not grant it
Ungranted(p) ==
  \/ p.NetMode = "HOST" /\ EntNetworkHost \notin granted
  \/ p.SecurityMode = "INSECURE" /\ EntSecurityInsecure \notin granted

\* C10: a Run or Exec call whose process asks for host networking or the
\* insecure security mode without the grant returns an error, the
\* entitlement error whenever the entitlements could be loaded, and neither
\* enters loadExecutor nor reaches the executor's Run/Exec.
C10_UngrantedNeverReachesExecutor ==
  \A c \in ExecCallers :
    xcalls[c].pc # "idle" /\ Ungranted(xcalls[c].proc) =>
      /\ xcalls[c].pc = "done"
      /\ xcalls[c].err # NoErr
      /\ xcalls[c].entOK => IsEntitlementErr(xcalls[c].err)
      /\ ~xcalls[c].acquired
      /\ ~xcalls[c].forwarded

\* C10 happens: a Run asking for the host network and an Exec asking for the
\* insecure mode were both refused and the worker was never resolved
C10_Witness ==
  \E c \in ExecCallers : \E d \in ExecCallers :
    /\ xcalls[c].op = "Run" /\ xcalls[c].proc.NetMode = "HOST"
    /\ xcalls[c].err = ErrNotAllowed(EntNetworkHost)
    /\ xcalls[d].op = "Exec" /\ xcalls[d].proc.SecurityMode = "INSECURE"
    /\ xcalls[d].proc.NetMode = "UNSET"
    /\ xcalls[d].err = ErrNotAllowed(EntSecurityInsecure)
    /\ resolves = 0 /\ executorOnce = "new"

\* C11: over all Run and Exec calls on the bridge the worker is resolved at
\* most once; a call is at the forward, or has forwarded, only when the
\* initialisation is done and gave an executor, and it forwards to that
\* executor; when the initialisation failed, every call that entered
\* loadExecutor and returned has returned the kept error without forwarding.
C11_ExecutorInitialisedOnce ==
  /\ resolves <= 1
  /\ resolves = 1 <=> executorOnce = "done"
  /\ executorOnce # "done" => executor = Nil /\ executorErr = NoErr
  /\ \A c \in ExecCallers :
       /\ xcalls[c].pc = "forward" \/ xcalls[c].forwarded =>
            /\ executorOnce = "done"
            /\ executorErr = NoErr
            /\ executor # Nil
            /\ xcalls[c].forwarded => xcalls[c].to = executor
       /\ executorErr # NoErr /\ xcalls[c].acquired /\ xcalls[c].pc = "done" =>
            xcalls[c].err = executorErr /\ ~xcalls[c].forwarded

\* C11 happens: the one resolution failed and two calls, the one that ran
\* it and a later one, have returned its error
C11_Witness ==
  /\ resolves = 1
  /\ executorErr # NoErr
  /\ \A c \in ExecCallers :
       xcalls[c].acquired /\ xcalls[c].pc = "done" /\ xcalls[c].err = executorErr

\* C12: once the resolution of a handle has failed with an error E, every
\* operation on the handle returns E, Query and Records as well as Load, Save
\* and ReleaseUnreferenced, and reaches no backend manager.
C12_FailedHandlePoisonsAll ==
  \A h \in Handles :
    lcms[h].closed /\ lcms[h].err # NoErr =>
      \A s \in lcms[h].seen :
        /\ QueryReturn(s) = [panic |-> FALSE, to |-> Nil, err |-> lcms[h].err]
        /\ LoadReturn(s) = [panic |-> FALSE, to |-> Nil, err |-> lcms[h].err]

\* a submitted policy list with a nil entry or one that fails validation
HasInvalid(pol) == \E i \in 1..Len(pol) : pol[i] \in {"nil", "bad"}

\* C13: a loadResult call whose submitted policies hold a nil or an invalid
\* entry, at whatever position, has returned an error without beginning the
\* loop over the cache imports (no handle created or inserted, no resolution
\* started by it), without loading the graph, pruning or building.
C13_InvalidPolicyAppliesNothing ==
  \A r \in Reqs :
    HasInvalid(reqs[r].pol) =>
      /\ reqs[r].pc = "done"
      /\ reqs[r].err # NoErr
      /\ reqs[r].n = 0
      /\ reqs[r].cms = << >>
      /\ reqs[r].res = Nil

\* C13 happens: a request whose second policy is nil was refused for it
\* while the registry is still empty
C13_Witness ==
  \E r \in Reqs :
    /\ reqs[r].pol = <<"p1", "nil">>
    /\ reqs[r].pc = "done"
    /\ reqs[r].err = MkErr("invalid nil policy", FALSE, "", << >>)
    /\ DOMAIN cms = {}
    /\ lcms = << >>

\* C14: when a Release call has completed while an evaluation was in flight
\* and the evaluation then finishes successfully, the step that follows it
\* releases the fresh result, stores neither a result nor an error, captures
\* no provenance and hands the callers the released-state error.
C14_FreshResultReleasedAfterRelease ==
  [][\A k \in DOMAIN g :
       ( /\ g[k].pc = "store" /\ g[k].lv # Nil /\ g[k].lerr = NoErr
         /\ ~g[k].afterRel /\ hist.relCalls > 0
         /\ k \in DOMAIN g' /\ g'[k].pc = "ready" )
       => /\ relCount[g[k].lv] = 0
          /\ relCount'[g[k].lv] = 1
          /\ v' = Nil /\ err' = NoErr /\ provenance' = Nil
          /\ g'[k].out = [v |-> Nil, err |-> ErrEvaluatingReleased]]_vars

\* C14 happens: an evaluation that began before the Release produced a
\* result, which was released once and is not stored
C14_Witness ==
  \E k \in DOMAIN g :
    /\ g[k].pc = "ready"
    /\ ~g[k].afterRel /\ g[k].evals = 1
    /\ g[k].lv # Nil /\ g[k].lerr = NoErr
    /\ g[k].out = [v |-> Nil, err |-> ErrEvaluatingReleased]
    /\ relCount[g[k].lv] = 1
    /\ released /\ v = Nil /\ err = NoErr /\ provenance = Nil

\* C15: when the evaluation succeeded but the capture of the provenance
\* failed, the produced result has been released exactly once, whatever
\* Release calls follow, it is neither stored nor retained, the capture
\* error is the stored error and what the call returns, and Provenance()
\* is nil.
C15_CaptureFailureDiscards ==
  /\ err = ErrProvenance <=> hist.discarded # Nil
  /\ hist.discarded # Nil =>
       /\ relCount[hist.discarded] = 1
       /\ v = Nil
       /\ Provenance = Nil
       /\ \A i \in 1..Len(errResults) : errResults[i] # hist.discarded
  /\ \A k \in DOMAIN g :
       g[k].pc = "ready" /\ g[k].evals = 1 /\ g[k].lerr = NoErr /\ g[k].lv = Nil =>
         g[k].out = [v |-> Nil, err |-> ErrProvenance]

\* C15 happens: the capture failed, the result was released, and a Release
\* call made afterwards left it at one release
C15_Witness ==
  /\ hist.discarded # Nil
  /\ hist.relCalls >= 1
  /\ released
  /\ relCount[hist.discarded] = 1
  /\ err = ErrProvenance

\* C16: a Release call that has returned has marked the proxy released and
\* has returned the last error met among the releases it made (none when
\* none of them failed).
C16_ReleaseMarksAndReturnsLastError ==
  hist.relCalls >= 1 =>
    /\ released
    /\ hist.lastRel.err = hist.lastRel.lastFail

\* the error e0 names a vertex for which the source map src has an entry
Located(src, e0) ==
  e0 # NoErr /\ e0.digest # "" /\ src.present /\ e0.digest \in DOMAIN src.Locations

\* C17: wrapError applied once to an error that names a vertex with an
\* entry in the source map attaches exactly one annotation per recorded
\* location, each with that location's ranges and source info, in the
\* recorded order, around the same error; any other error (no vertex, no
\* source metadata, no entry for the digest) comes back unchanged.
C17_OneAnnotationPerLocation ==
  wrapped.n = 1 =>
    IF Located(wrapped.src, wrapped.e0)
    THEN LET locs == wrapped.src.Locations[wrapped.e0.digest] IN
         /\ Len(wrapped.e.sources) = Len(locs)
         /\ \A i \in 1..Len(locs) :
              wrapped.e.sources[i] =
                [Info |-> wrapped.src.Infos[locs[i].SourceIndex], Ranges |-> locs[i].Ranges]
         /\ [wrapped.e EXCEPT !.sources = << >>] = wrapped.e0
    ELSE wrapped.e = wrapped.e0

\* C17 happens: an error at d1, which has two recorded locations in two
\* files, carries both in the recorded order
C17_Witness ==
  /\ wrapped.n = 1
  /\ wrapped.src = TwoFiles
  /\ wrapped.e0.digest = "d1"
  /\ wrapped.e.sources = << [Info |-> "common.inc", Ranges |-> "r1"],
                            [Info |-> "Dockerfile", Ranges |-> "r2"] >>

\* the list handed to the policy engine has the ambient policy, if it has
\* it at all, in front of the submitted policies pol, kept in their order
AmbientFirst(engine, pol) ==
  (\E i \in 1..Len(engine) : engine[i] = "ambient") => engine = <<"ambient">> \o pol

\* C18: with an ambient source policy, the list handed to the policy engine
\* is the ambient policy followed by the submitted policies in their order,
\* in loadResult and in ResolveSourceMetadata.
C18_AmbientPolicyFirst ==
  /\ \A r \in Reqs :
       reqs[r].pc = "cms" /\ reqs[r].engine # NoEngine =>
         AmbientFirst(reqs[r].engine, reqs[r].pol)
  /\ \A pol \in {q \in PolLists : FirstInvalid(q) = NoErr} :
       Prologue(TRUE, TRUE, "ambient", pol).engine = <<"ambient">> \o pol
  /\ \A m \in MetaCallers :
       metas[m].pc \in {"resolve", "done"} /\ metas[m].amb = "ambient" =>
         metas[m].err = MkErr("load source policy", FALSE, "", << >>)
         \/ metas[m].engine = <<"ambient">> \o metas[m].pols

\* C19: wrapError applied to an error it has already wrapped attaches
\* nothing more: the second application carries the annotations of the
\* first, one per recorded location.
C19_WrapErrorIdempotent ==
  wrapped.n = 2 => wrapped.e = wrapError(wrapped.src, wrapped.e0)

\* the errors loadResult returns of its own steps
OwnErrors ==
  {MkErr(m, FALSE, "", << >>) :
     m \in {"resolve worker", "load entitlements", "load source policy",
            "invalid nil policy", "invalid source policy", "failed to load LLB",
            "prune cache mounts", "build"}}

\* C20: a failed resolution touches its own handle only.  The step in which
\* a resolution fails changes no request, no registry entry and no other
\* handle; a request never returns the error of a resolution; a failed
\* handle keeps its error, is never resolved again and, once inserted, stays
\* the handle registered for its key, so that a request naming the source
\* later is given that handle without any resolution being started.
C20_FailedResolutionIsLocal ==
  [][/\ \A h \in Handles :
          ~lcms[h].closed /\ lcms'[h].closed /\ lcms'[h].err # NoErr =>
            /\ reqs' = reqs
            /\ cms' = cms
            /\ \A h2 \in Handles \ {h} : lcms'[h2] = lcms[h2]
     /\ \A r \in Reqs : reqs'[r].err # NoErr => reqs'[r].err \in OwnErrors
     /\ \A h \in Handles :
          lcms[h].err # NoErr =>
            /\ lcms'[h].err = lcms[h].err
            /\ lcms'[h].runs = 1
            /\ (\A r \in Reqs : ~(reqs[r].pc = "created" /\ reqs[r].cm = h)) =>
                 /\ lcms[h].id \in DOMAIN cms'
                 /\ cms'[lcms[h].id] = h
     /\ \A r \in Reqs :
          reqs[r].pc = "locked" /\ reqs'[r].pc = "found" /\ lcms[reqs'[r].cm].err # NoErr =>
            /\ lcms' = lcms
            /\ reqs'[r].cm = cms[reqs[r].cmID]
    ]_vars

\* C20 happens: a request holds a failed handle and a handle that resolved
\* to a manager and has answered an operation, while another request is
\* given the failed handle, resolved once, for the same source
C20_Witness ==
  \E r \in Reqs : \E r2 \in Reqs \ {r} : \E h1 \in Handles : \E h2 \in Handles \ {h1} :
    /\ reqs[r].pc = "cms"
    /\ reqs[r].err = NoErr
    /\ SeqToSet(reqs[r].cms) = {h1, h2}
    /\ lcms[h1].err # NoErr /\ lcms[h1].runs = 1
    /\ lcms[h2].main # Nil /\ lcms[h2].seen = {[main |-> h2, err |-> NoErr]}
    /\ reqs[r2].pc = "found" /\ reqs[r2].cm = h1

\* C21: the key of a reference is its ref attribute verbatim when the type
\* is registry and ref is not empty, and otherwise, for another type or a
\* registry reference with an empty or missing ref, the type joined by ":"
\* with the structural hash of the reference; two equal references get
\* equal keys whichever is taken first.
C21_KeyOfReference ==
  /\ \A i \in 1..Len(keyed.keys) :
       LET im == keyed.ims[i] IN
       IF im.Type = "registry" /\ "ref" \in DOMAIN im.Attrs /\ im.Attrs["ref"] # ""
       THEN keyed.keys[i] = im.Attrs["ref"]
       ELSE keyed.keys[i] = im.Type \o ":" \o ToString(HashStructure(im))
  /\ Len(keyed.keys) = 2 /\ keyed.ims[1] = keyed.ims[2] => keyed.keys[1] = keyed.keys[2]

\* C21 happens: two equal references of another type than registry, which
\* carry a ref, were both given the hashed key
C21_Witness ==
  /\ Len(keyed.keys) = 2
  /\ keyed.ims[1] = keyed.ims[2]
  /\ keyed.ims[1] = [Type |-> "local", Attrs |-> [ref |-> "a"]]
  /\ keyed.keys[1] = keyed.keys[2]
  /\ keyed.keys[1] # "a"

\* C22: when the resolution of a handle completed without an error and
\* without a manager, every operation on the handle, Query and Records as
\* well as Load, Save and ReleaseUnreferenced, returns without an error,
\* without reaching a manager and without a panic.
C22_AbsentManagerIsNoOp ==
  \A h \in Handles :
    lcms[h].closed /\ lcms[h].err = NoErr /\ lcms[h].main = Nil =>
      \A s \in lcms[h].seen :
        /\ QueryReturn(s) = [panic |-> FALSE, to |-> Nil, err |-> NoErr]
        /\ LoadReturn(s) = [panic |-> FALSE, to |-> Nil, err |-> NoErr]

\* C23: a loadResult call that got past its policies has a policy evaluator
\* if and only if an ambient policy is present or at least one policy was
\* submitted; with neither, the graph is loaded with no evaluator.
C23_EvaluatorIffPolicies ==
  \A r \in Reqs :
    reqs[r].pc = "cms" =>
      (reqs[r].engine # NoEngine <=> reqs[r].amb # "none" \/ Len(reqs[r].pol) > 0)

\* C23 happens: one request goes on without an evaluator, having neither an
\* ambient nor a submitted policy, another with the evaluator of the
\* ambient policy alone
C23_Witness ==
  \E r1 \in Reqs : \E r2 \in Reqs :
    /\ reqs[r1].pc = "cms" /\ reqs[r1].amb = "none" /\ reqs[r1].pol = << >>
    /\ reqs[r1].engine = NoEngine
    /\ reqs[r2].pc = "cms" /\ reqs[r2].amb = "ambient" /\ reqs[r2].pol = << >>
    /\ reqs[r2].engine = <<"ambient">>

\* the calls of the work function that are past the check of the stored
\* outcome and have not returned: their evaluation is about to run or runs
InProgress == {k \in DOMAIN g : g[k].pc \in {"eval", "append", "store"}}

\* C24: at no time are two evaluations of the proxy in progress, whether
\* Result calls arrive while a call is running or an evaluation is made
\* again after a canceled attempt; the evaluations counted over the run are
\* those of the finished calls plus at most one.
C24_OneEvaluationAtATime ==
  /\ Cardinality(InProgress) <= 1
  /\ \A k \in DOMAIN g : g[k].evals <= 1
  /\ \A k1 \in DOMAIN g : \A k2 \in DOMAIN g :
       Evaluating(k1) /\ Evaluating(k2) => k1 = k2

\* C24 happens: after a canceled attempt the evaluation runs a second time,
\* with two callers waiting on it
C24_Witness ==
  \E k \in DOMAIN g :
    /\ Evaluating(k)
    /\ Cardinality(g[k].waiters) = 2
    /\ hist.canceled
    /\ hist.evals = 2

\* the positions of fn whose step runs between rp.mu.Lock and rp.mu.Unlock
\* (bridge.go:302-310 and 321-341); EachRef in rp.loadResult runs with the
\* mutex free (bridge.go:286-289)
LockedSteps == {"check", "store"}

\* EachRef has appended some of the exposed results and not yet the others
Appending(k) ==
  /\ g[k].pc = "append"
  /\ 0 < Len(g[k].todo)
  /\ Len(g[k].todo) < Len(g[k].lerr.refs)

\* C25: the retained partial results are written only by a step holding
\* the proxy mutex, and Release never walks the list of retained results
\* while an evaluation is between two appends to it.
C25_SharedStateUnderMutex ==
  [][/\ errResults' # errResults =>
          \E k \in DOMAIN g : g[k].pc \in LockedSteps
     /\ hist'.relCalls # hist.relCalls =>
          \A k \in DOMAIN g : ~Appending(k)]_vars

\* C26: an evaluation that fails with an error that is no cancellation,
\* the context being done or not, stores the error on the proxy; while
\* Release has not been called every later call of Result returns the
\* stored error and no evaluation runs again.
C26_FailureMemoized ==
  hist.relCalls = 0 =>
    /\ \A k \in DOMAIN g :
         /\ g[k].pc = "ready" /\ g[k].evals = 1
            /\ g[k].lerr # NoErr /\ ~IsCanceled(g[k].lerr)
            => /\ err = g[k].lerr
               /\ g[k].out = [v |-> v, err |-> err]
         /\ g[k].pc = "ready" /\ g[k].evals = 0 /\ err # NoErr
            => g[k].out = [v |-> v, err |-> err]
    /\ err # NoErr => InProgress = {}

\* C26 happens: the one evaluation failed with the context done and an
\* error that is no cancellation, and a later call of Result is about to
\* return the stored error without having evaluated
C26_Witness ==
  \E k \in DOMAIN g :
    /\ g[k].pc = "ready" /\ g[k].evals = 0
    /\ hist.storedDone /\ hist.evals = 1 /\ hist.relCalls = 0
    /\ lastRet.set /\ lastRet.err # NoErr
    /\ err # NoErr /\ ~IsCanceled(err)
    /\ g[k].out.err = err

\* C27: once no evaluation is in progress and Release has returned, every
\* partial result an execution error exposed to the proxy has been
\* released, whatever the order of the evaluation and Release.
C27_PartialResultsReleased ==
  InProgress = {} /\ hist.relCalls >= 1 =>
    \A i \in 1..Len(errResults) : relCount[errResults[i]] >= 1

\* C28: the state of a proxy only moves forward: a stored result and a
\* stored error are never replaced or cleared, a step that stores nothing
\* leaves the proxy without outcome only if it had none, no evaluation
\* starts once an outcome is stored, and the released flag is never reset.
C28_StateMovesForward ==
  [][/\ v # Nil => v' = v
     /\ err # NoErr => err' = err
     /\ released => released'
     /\ HasOutcome => InProgress' = {}
     /\ (v' = Nil /\ err' = NoErr) => ~HasOutcome]_vars

\* C28 happens: an attempt was canceled, a later one stored its result, the
\* proxy was released and a Result call after that was refused
C28_Witness ==
  /\ hist.canceled
  /\ v # Nil
  /\ released
  /\ lastRet.set
  /\ lastRet.err = wrapError(ReqSource, ErrAccessingReleased)

\* C29: b.cmsMu is held by a request exactly while it looks up or inserts
\* one handle; its holder can always go on to the unlock and a request
\* between two imports can take the free lock, whatever the state of the
\* resolutions: loadResult never waits for a cache manager to resolve.
C29_RegistryLockIsShort ==
  /\ \A r \in Reqs : cmsMu = r <=> reqs[r].pc \in {"locked", "found", "created"}
  /\ \A r \in Reqs :
       /\ reqs[r].pc = "locked" => ENABLED LRLookup(r)
       /\ reqs[r].pc \in {"found", "created"} => ENABLED LRInsert(r)
       /\ reqs[r].pc = "cms" /\ reqs[r].n < MaxImports /\ cmsMu = 0
            => ENABLED LRLock(r)

\* C29 happens: while the resolutions of two handles are pending, one
\* request holds the first and another has obtained both, the one of the
\* same key and the one of another key
C29_Witness ==
  \E r1 \in Reqs : \E r2 \in Reqs :
    /\ r1 # r2
    /\ reqs[r1].pc = "cms" /\ Len(reqs[r1].cms) = 1
    /\ reqs[r2].pc = "cms" /\ Len(reqs[r2].cms) = 2
    /\ reqs[r2].cms[1] = reqs[r1].cms[1]
    /\ reqs[r2].cms[2] # reqs[r2].cms[1]
    /\ \A i \in 1..2 : ~lcms[reqs[r2].cms[i]].closed
    /\ cmsMu = 0

\* C30: loadResult takes its steps in the order policy validation, cache
\* handles, load, pruning, build.  Handles are taken only after the
\* policies were found valid; the load follows the handles; pruning is
\* invoked only after a load that recorded cache-mount ids; the build only
\* after a load that recorded none or after a pruning that succeeded; a
\* result comes only from the build, and a call that ends with an error of
\* the load or of the pruning has no result.
C30_StepsInOrder ==
  [][\A r \in Reqs :
       LET a == reqs[r]
           b == reqs'[r]
       IN /\ a.pc = "idle" => b.pc \in {"idle", "cms", "done"}
          /\ b.pc \in {"locked", "found", "created"} => ~HasInvalid(b.pol)
          /\ b.pc = "prune" => (a.pc \in {"cms", "prune"} /\ b.ids)
          /\ b.pc = "build" =>
               \/ a.pc = "build"
               \/ a.pc = "cms" /\ ~b.ids
               \/ a.pc = "prune" /\ b.ids
          /\ a.pc \in {"cms", "prune"} /\ b.pc = "done" =>
               (b.err # NoErr /\ b.res = Nil)
          /\ b.res # Nil => a.pc \in {"build", "done"}
          /\ b.pc = "done" => (b.res = Nil <=> b.err # NoErr)]_vars

\* C30 happens: one call was built after a pruning that succeeded, the
\* other ended with the error of a failed pruning and no result
C30_Witness ==
  \E r1 \in Reqs : \E r2 \in Reqs :
    /\ reqs[r1].pc = "done" /\ reqs[r1].ids /\ reqs[r1].res # Nil
    /\ reqs[r2].pc = "done" /\ reqs[r2].ids /\ reqs[r2].res = Nil
    /\ reqs[r2].err = MkErr("prune cache mounts", FALSE, "", << >>)

\* C31: a handle inserted in b.cms for a key is never replaced or removed:
\* every step leaves each entry of the registry as it is, whether the
\* request that created the handle fails later, the resolution of the
\* handle fails, or later requests name the same or other keys.
C31_RegistryEntriesStay ==
  [][\A k \in DOMAIN cms : k \in DOMAIN cms' /\ cms'[k] = cms[k]]_vars

\* C31 happens: the request that created a handle has failed at the build,
\* the resolution of the handle has failed, and the other request finds the
\* handle still registered under its key, next to a second entry
C31_Witness ==
  \E r1 \in Reqs : \E r2 \in Reqs \ {r1} :
    /\ reqs[r1].pc = "done"
    /\ reqs[r1].err = MkErr("build", FALSE, "", << >>)
    /\ reqs[r2].pc = "found" /\ reqs[r2].n = 1
    /\ lcms[reqs[r2].cm].err # NoErr
    /\ cms[reqs[r2].cmID] = reqs[r2].cm
    /\ Cardinality(DOMAIN cms) = 2

\* C32: ResolveSourceMetadata evaluates the composed policies before the
\* worker is asked.  The worker is asked only by a call whose policies
\* were evaluated and accepted, and with no policy left in the options; a
\* call whose evaluation rejects ends with the policy error, has asked no
\* worker and returns no response.
C32_EvaluateBeforeWorker ==
  [][\A m \in MetaCallers :
       LET a == metas[m]
           b == metas'[m]
       IN /\ b.pc = "resolve" /\ a.pc # "resolve" =>
               /\ a.pc = "evaluate"
               /\ b.engine = MetaPolicies(a.amb, a.pols)
               /\ b.err = NoErr
          /\ b.asked /\ ~a.asked =>
               /\ a.pc = "resolve"
               /\ a.optPols = << >>
               /\ b.optPols = << >>
          /\ a.pc = "evaluate" /\ b.pc = "done" =>
               /\ b.err = MkErr("could not resolve image due to policy", FALSE, "", << >>)
               /\ ~b.asked
               /\ b.resp = Nil
          /\ b.pc = "done" /\ ~b.asked => b.resp = Nil]_vars

\* C32 happens: two submitted policies and the ambient one were evaluated
\* and accepted, and the worker, asked with no policy, has answered
C32_Witness ==
  \E m \in MetaCallers :
    /\ metas[m].pc = "done"
    /\ metas[m].asked
    /\ metas[m].resp # Nil
    /\ Len(metas[m].engine) = 3
    /\ metas[m].optPols = << >>

\* C33: the wait channel of every lazy cache manager is closed exactly
\* once, by the step that ends its resolution, whatever the outcome, and
\* is never open again; so, time and again, no operation on any handle that
\* exists has to wait: every blocked operation eventually proceeds.
C33_SignalFiresOnce ==
  /\ [][\A h \in Handles :
          /\ lcms'[h].runs # lcms[h].runs =>
               (~lcms[h].closed /\ lcms'[h].closed /\ lcms'[h].runs = 1)
          /\ lcms'[h].closed # lcms[h].closed => lcms'[h].runs # lcms[h].runs]_vars
  /\ []<>(\A h \in Handles : LcmWait(h))

\* C33 happens: one resolution ended with a resolver error, another with
\* an unknown importer type; the channel of each handle is closed and an
\* operation on each has gone past its wait
C33_Witness ==
  \E h1 \in Handles : \E h2 \in Handles :
    /\ lcms[h1].closed /\ lcms[h1].err = MkErr("resolve", FALSE, "", << >>)
    /\ lcms[h2].closed /\ lcms[h2].err = MkErr("unknown cache importer", FALSE, "", << >>)
    /\ lcms[h1].runs = 1 /\ lcms[h2].runs = 1
    /\ lcms[h1].seen # {} /\ lcms[h2].seen # {}

\* C34: the stored result and the stored error of a proxy are never both
\* set, and the provenance capture is set only while a result is stored
\* without error; so Provenance() returns nil as long as no evaluation has
\* succeeded, also after a failed or a canceled one.
C34_ResultXorError ==
  /\ ~(v # Nil /\ err # NoErr)
  /\ provenance # Nil => (v # Nil /\ err = NoErr /\ provenance = v)
  /\ v = Nil => Provenance = Nil
  /\ \A k \in DOMAIN g :
       g[k].pc = "ready" => ~(g[k].out.v # Nil /\ g[k].out.err # NoErr)

\* C34 happens: one attempt was canceled and a later evaluation failed at
\* the capture of the provenance; an error is stored, no result, and
\* Provenance() returns nil
C34_Witness ==
  /\ hist.canceled
  /\ hist.discarded # Nil
  /\ err = ErrProvenance
  /\ v = Nil
  /\ Provenance = Nil

\* C35: two cache-source references are given the same handle only if they
\* have the same type and the same attributes: the handle a request is
\* given for its reference was created for, and is resolved from, an equal
\* reference.
C35_SharedOnlyByEqualReferences ==
  \A r \in Reqs :
    reqs[r].pc \in {"found", "created"} =>
      CacheRefs[lcms[reqs[r].cm].im] = CacheRefs[reqs[r].im]

\* the errors update returns after the new host configuration was applied
\* and that make it restore the backup
RestoringErrors == {"UpdateContainer", "CheckpointTo", "UpdateResources"}

C37_SuccessfulUpdatesKept ==
  (\A u \in Updaters : upd[u].pc = "done") =>
    \A u \in Updaters :
      upd[u].ret = "ok" /\ ~upd[u].isNil => u \in ctr.HostConfig

\* C38: a call that finds the container dead or marked for removal returns
\* an error, and from the check to its return leaves HostConfig, the
\* checkpoint, the restart monitor and the logged events as they are and
\* the lock free; a call with a nil host configuration returns success
\* without looking the container up.
C38_RefusedUpdateChangesNothing ==
  [][\A u \in Updaters :
       /\ upd[u].pc = "locked" /\ upd'[u] # upd[u]
          /\ (ctr.RemovalInProgress \/ ctr.Dead) =>
            /\ upd'[u].ret = "marked for removal"
            /\ ~upd'[u].restoreConfig /\ ~upd'[u].logging
            /\ ctrMu' = 0
            /\ ctr' = ctr /\ replica' = replica /\ monitor' = monitor /\ events' = events
       /\ upd[u].ret = "marked for removal" /\ upd'[u] # upd[u] =>
            /\ upd'[u].pc = "done" /\ upd'[u].ret = upd[u].ret
            /\ ~upd'[u].restored
            /\ ctrMu' = ctrMu /\ ctrMu # u
            /\ ctr' = ctr /\ replica' = replica /\ monitor' = monitor /\ events' = events
       /\ upd'[u].isNil =>
            /\ upd'[u].pc = "done" /\ upd'[u].ret = "ok" /\ ~upd'[u].looked
            /\ upd[u].pc = "idle" =>
                 (ctr' = ctr /\ replica' = replica /\ monitor' = monitor
                  /\ events' = events /\ ctrMu' = ctrMu)]_vars

\* C38 happens: one call updated the container, which was then marked for
\* removal; the other call was refused and has returned with everything as
\* the first call left it
C38_Witness ==
  \E u1 \in Updaters : \E u2 \in Updaters :
    /\ upd[u1].pc = "done" /\ upd[u1].ret = "ok" /\ ~upd[u1].isNil
    /\ upd[u2].pc = "done" /\ upd[u2].ret = "marked for removal"
    /\ ctr.RemovalInProgress
    /\ ctr.HostConfig = {u1} /\ replica = {u1}
    /\ events = {u1}
    /\ ctrMu = 0

====
